---- MODULE Spec2Model ----
(***************************************************************************)
(* The DHCP supplicant of wicked: src/dhcp/rest-api.c.                     *)
(*                                                                         *)
(* State: the registry of DHCP devices (the list ni_dhcp_active), the      *)
(* signal flag ni_dhcp_stop, the position of ni_dhcp_run, the request the  *)
(* last call of ni_dhcp_process_request handled together with its          *)
(* outcome, and the calls made to the device registry and lease state      *)
(* machine, which live outside rest-api.c.                                 *)
(***************************************************************************)
EXTENDS Integers, Sequences, FiniteSets, TLC

VARIABLES
    pc,              \* position of ni_dhcp_run
    ni_dhcp_stop,    \* the signal recorded by catch_fatal_signals, 0 if none
    ni_dhcp_active,  \* the device list, head first
    dev,             \* ni_dhcp_run's cursor: an index into ni_dhcp_active, 0 = NULL
    last,            \* the request handled by the last ni_dhcp_process_request and its outcome
    calls,           \* calls into registry / state machine made by the current operation
    sent,            \* the device event written by the last ni_dhcp_send_device_event
    atExit,          \* ni_dhcp_active as it was when the loop was left
    seeded,          \* number of srandom() calls so far
    exitStatus,      \* status handed to exit(), -1 while running
    rng,             \* ni_srandom: what the system hands it, its local seed, the seeds given to srandom
    wire             \* ni_dhcp_send_device_event: the buffer event[] and the bytes handed to write()

vars == <<pc, ni_dhcp_stop, ni_dhcp_active, dev, last, calls, sent, atExit, seeded, exitStatus,
          rng, wire>>

(***************************************************************************)
(* Bounds and input sets                                                   *)
(***************************************************************************)
\* cap on the length of the device list (the code has none)
MaxDevices == 3

Names == {"eth0", "wlan0"}
NoName == "NULL"
Configs == {"cfgA", "cfgB"}
NoConfig == "NULL"
\* link type of each interface description
TypeOf(n) == IF n = "eth0" THEN "ethernet" ELSE "wireless"

SIGINT == 2
SIGTERM == 15

ActiveStates == {"NI_DHCP_STATE_REQUESTING", "NI_DHCP_STATE_RENEWING",
                 "NI_DHCP_STATE_REBINDING", "NI_DHCP_STATE_BOUND"}
States == ActiveStates \cup {"NI_DHCP_STATE_INIT"}

\* a lease pointer: NoLease is NULL
NoLease == [type |-> "NULL", family |-> "NULL", state |-> "NULL", data |-> "NULL"]
Leases == {[type |-> "NI_ADDRCONF_DHCP", family |-> "AF_INET",
            state |-> "NI_ADDRCONF_STATE_GRANTED", data |-> "lease1"]}

\* the document the XML codec builds from a lease; NoXml is NULL
NoXml == [doc |-> "NULL", lease |-> NoLease]

\* rng and wire while ni_srandom and ni_dhcp_send_device_event are looked at
\* as single steps of ni_dhcp_run
NoRng == [at |-> "idle"]
NoWire == [at |-> "idle"]

(***************************************************************************)
(* The device registry and the lease state machine (device.c, fsm.c):      *)
(* not part of rest-api.c, modelled from their contract.                   *)
(***************************************************************************)
\* one call into the registry or the state machine, with the device's
\* state and lease presence at the time of the call
Call(op, name, d, active) ==
    [op |-> op, name |-> name, dev |-> d,
     state |-> IF d = 0 THEN "NULL" ELSE active[d].state,
     lease |-> IF d = 0 THEN FALSE ELSE active[d].lease # NoLease]

\* ni_dhcp_device_find: the first device of the list named ifname, 0 (NULL) if none
ni_dhcp_device_find(active, ifname) ==
    IF \E i \in 1..Len(active) : active[i].ifname = ifname
    THEN CHOOSE i \in 1..Len(active) :
            /\ active[i].ifname = ifname
            /\ \A j \in 1..(i - 1) : active[j].ifname # ifname
    ELSE 0

\* ni_dhcp_device_new: a fresh device record appended to the list
ni_dhcp_device_new(active, ifname, iftype) ==
    Append(active, [ifname |-> ifname, iftype |-> iftype,
                    state |-> "NI_DHCP_STATE_INIT", lease |-> NoLease,
                    failed |-> FALSE, config |-> NoConfig, notify |-> FALSE])

\* ni_dhcp_device_reconfigure: attaches the desired configuration; nonzero
\* when that is a material change
ni_dhcp_device_reconfigure(active, d, ifp) ==
    [active  |-> [active EXCEPT ![d].config = ifp.config],
     changed |-> active[d].config # ifp.config]

\* ni_dhcp_device_stop: ends the management of the device: its lease and
\* configuration are dropped, it stays in the list. Nothing for NULL.
ni_dhcp_device_stop(active, d) ==
    IF d = 0 THEN active
    ELSE [active EXCEPT ![d].state = "NI_DHCP_STATE_INIT",
                        ![d].lease = NoLease,
                        ![d].config = NoConfig]

\* ni_dhcp_device_start: hands the device to the state machine, whose
\* steps (FsmStep) then move it
ni_dhcp_device_start(active, d) == active

\* ni_dhcp_fsm_release: a graceful release; the lease is gone when it succeeds
ni_dhcp_fsm_release(active, d, ok) ==
    IF ok THEN [active EXCEPT ![d].lease = NoLease] ELSE active

\* ni_dhcp_device_get_changed: the first device flagged notify, 0 (NULL) if none
ni_dhcp_device_get_changed(active) ==
    IF \E i \in 1..Len(active) : active[i].notify
    THEN CHOOSE i \in 1..Len(active) :
            /\ active[i].notify
            /\ \A j \in 1..(i - 1) : ~active[j].notify
    ELSE 0

\* one step of the lease state machine on a device it manages (a packet
\* processed inside ni_socket_wait, or a timer matured in
\* ni_dhcp_fsm_check_timeout): new state, lease and failure, flagged changed
FsmStep(active, d, st, l, f) ==
    [active EXCEPT ![d].state = st, ![d].lease = l, ![d].failed = f,
                   ![d].notify = TRUE]

\* ni_syntax_xml_from_lease: the document of a lease, NULL if the codec fails
ni_syntax_xml_from_lease(lease, codec_ok) ==
    IF codec_ok THEN [doc |-> "lease", lease |-> lease] ELSE NoXml

(***************************************************************************)
(* dhcp_device_xml, lines 156-177                                          *)
(***************************************************************************)
\* the zeroed lease of lines 163-166 with its state set
dummy(state) ==
    [type |-> "NI_ADDRCONF_DHCP", family |-> "AF_INET", state |-> state, data |-> "NULL"]

\* dhcp_device_xml looking at the lease before the failed flag
dhcp_device_lease_leasefirst(d) ==
    IF d.lease # NoLease THEN d.lease
    ELSE IF d.failed THEN dummy("NI_ADDRCONF_STATE_FAILED")
    ELSE dummy("NI_ADDRCONF_STATE_RELEASED")

\* lines 168-174: the lease handed to the codec
dhcp_device_lease(d) ==
    IF d.failed THEN dummy("NI_ADDRCONF_STATE_FAILED")
    ELSE IF d.lease # NoLease THEN d.lease
    ELSE dummy("NI_ADDRCONF_STATE_RELEASED")

dhcp_device_xml(d, codec_ok) ==
    ni_syntax_xml_from_lease(dhcp_device_lease(d), codec_ok)


(***************************************************************************)
(* The request handlers                                                    *)
(***************************************************************************)
\* what a handler leaves behind: the device list, its return value, the
\* message werror attached, req->xml_out, the calls it made, its locals dev
\* and reacquire, the dummy handle ("none": never opened) and whether the
\* process died in it
Outcome(active, rv, err, xml, cl, d, reacq, cnih, crashed) ==
    [active |-> active, rv |-> rv, err |-> err, xml_out |-> xml, calls |-> cl,
     dev |-> d, reacquire |-> reacq, cnih |-> cnih, crashed |-> crashed]

\* dhcp_device_response, lines 183-192
dhcp_device_response(active, d, cl, codec_ok) ==
    LET xml == dhcp_device_xml(active[d], codec_ok) IN
    IF xml = NoXml
    THEN Outcome(active, -1, "cannot render interface information", NoXml,
                 cl, d, FALSE, "none", FALSE)
    ELSE Outcome(active, 0, "", xml, cl, d, FALSE, "none", FALSE)

\* dhcp_device_get registering the interface it was asked about
dhcp_device_get_creates(active, ifname, in) ==
    IF ifname = NoName
    THEN {Outcome(active, -1, "need to specify interface", NoXml,
                  <<>>, 0, FALSE, "none", FALSE)}
    ELSE LET d  == ni_dhcp_device_find(active, ifname)
             cl == <<Call("find", ifname, d, active)>> IN
         IF d = 0
         THEN {Outcome(ni_dhcp_device_new(active, ifname, TypeOf(ifname)), -1,
                       "interface not known", NoXml, cl, 0, FALSE, "none", FALSE)}
         ELSE {dhcp_device_response(active, d, cl, in.codec_ok)}

\* dhcp_device_get, lines 197-214
dhcp_device_get(active, ifname, in) ==
    IF ifname = NoName
    THEN {Outcome(active, -1, "need to specify interface", NoXml,
                  <<>>, 0, FALSE, "none", FALSE)}
    ELSE LET d  == ni_dhcp_device_find(active, ifname)
             cl == <<Call("find", ifname, d, active)>> IN
         IF d = 0
         THEN {Outcome(active, -1, "interface not known", NoXml,
                       cl, 0, FALSE, "none", FALSE)}
         ELSE {dhcp_device_response(active, d, cl, in.codec_ok)}

\* dhcp_interface_delete failing for an interface that is not registered
dhcp_interface_delete_strict(active, ifname, in) ==
    IF ifname = NoName
    THEN {Outcome(active, -1, "no interface name given", NoXml,
                  <<>>, 0, FALSE, "none", FALSE)}
    ELSE LET d  == ni_dhcp_device_find(active, ifname)
             cl == <<Call("find", ifname, d, active)>> IN
         IF d # 0
         THEN {Outcome(ni_dhcp_device_stop(active, d), 0, "", NoXml,
                       Append(cl, Call("stop", ifname, d, active)),
                       d, FALSE, "none", FALSE)}
         ELSE {Outcome(active, -1, "interface not known", NoXml,
                       cl, 0, FALSE, "none", FALSE)}

\* dhcp_interface_delete, lines 295-308
dhcp_interface_delete(active, ifname, in) ==
    IF ifname = NoName
    THEN {Outcome(active, -1, "no interface name given", NoXml,
                  <<>>, 0, FALSE, "none", FALSE)}
    ELSE LET d  == ni_dhcp_device_find(active, ifname)
             cl == <<Call("find", ifname, d, active)>> IN
         IF d # 0
         THEN {Outcome(ni_dhcp_device_stop(active, d), 0, "", NoXml,
                       Append(cl, Call("stop", ifname, d, active)),
                       d, FALSE, "none", FALSE)}
         ELSE {Outcome(active, 0, "", NoXml, cl, 0, FALSE, "none", FALSE)}

\* put_up registering a new device whether or not the lookup found one
put_up_always_new(active, ifp, cl0) ==
    LET d  == ni_dhcp_device_find(active, ifp.name)
        cl == Append(cl0, Call("find", ifp.name, d, active))
        a1 == ni_dhcp_device_new(active, ifp.name, ifp.type)
        n  == Len(a1)
        r  == ni_dhcp_device_reconfigure(a1, n, ifp) IN
    [active |-> r.active, dev |-> n, reacquire |-> TRUE,
     calls |-> cl \o <<Call("new", ifp.name, n, a1),
                       Call("reconfigure", ifp.name, n, a1)>>]

\* put_up asking for a reacquire only when both conditions of line 258 hold
put_up_and(active, ifp, cl0) ==
    LET d  == ni_dhcp_device_find(active, ifp.name)
        cl == Append(cl0, Call("find", ifp.name, d, active)) IN
    IF d # 0
    THEN LET r == ni_dhcp_device_reconfigure(active, d, ifp) IN
         [active |-> r.active, dev |-> d,
          reacquire |-> (r.changed /\ active[d].state # "NI_DHCP_STATE_BOUND"),
          calls |-> Append(cl, Call("reconfigure", ifp.name, d, active))]
    ELSE LET a1 == ni_dhcp_device_new(active, ifp.name, ifp.type)
             n  == Len(a1)
             r  == ni_dhcp_device_reconfigure(a1, n, ifp) IN
         [active |-> r.active, dev |-> n, reacquire |-> TRUE,
          calls |-> cl \o <<Call("new", ifp.name, n, a1),
                            Call("reconfigure", ifp.name, n, a1)>>]

\* put_up leaving reacquire unset for the device it creates
put_up_noreacquire(active, ifp, cl0) ==
    LET d  == ni_dhcp_device_find(active, ifp.name)
        cl == Append(cl0, Call("find", ifp.name, d, active)) IN
    IF d # 0
    THEN LET r == ni_dhcp_device_reconfigure(active, d, ifp) IN
         [active |-> r.active, dev |-> d,
          reacquire |-> (r.changed \/ active[d].state # "NI_DHCP_STATE_BOUND"),
          calls |-> Append(cl, Call("reconfigure", ifp.name, d, active))]
    ELSE LET a1 == ni_dhcp_device_new(active, ifp.name, ifp.type)
             n  == Len(a1)
             r  == ni_dhcp_device_reconfigure(a1, n, ifp) IN
         [active |-> r.active, dev |-> n, reacquire |-> FALSE,
          calls |-> cl \o <<Call("new", ifp.name, n, a1),
                            Call("reconfigure", ifp.name, n, a1)>>]

\* dhcp_interface_put, lines 254-266: the interface is administratively up.
\* Yields the device list, dev, reacquire and the calls made.
put_up(active, ifp, cl0) ==
    LET d  == ni_dhcp_device_find(active, ifp.name)
        cl == Append(cl0, Call("find", ifp.name, d, active)) IN
    IF d # 0
    THEN LET r == ni_dhcp_device_reconfigure(active, d, ifp) IN
         [active |-> r.active, dev |-> d,
          reacquire |-> (r.changed \/ active[d].state # "NI_DHCP_STATE_BOUND"),
          calls |-> Append(cl, Call("reconfigure", ifp.name, d, active))]
    ELSE LET a1 == ni_dhcp_device_new(active, ifp.name, ifp.type)
             n  == Len(a1)
             r  == ni_dhcp_device_reconfigure(a1, n, ifp) IN
         [active |-> r.active, dev |-> n, reacquire |-> TRUE,
          calls |-> cl \o <<Call("new", ifp.name, n, a1),
                            Call("reconfigure", ifp.name, n, a1)>>]

\* put_down releasing the lease before the stop, as the shutdown sequence does
put_down_release(active, ifp, d, cl0) ==
    IF d # 0 /\ active[d].lease # NoLease
    THEN [active |-> ni_dhcp_device_stop(ni_dhcp_fsm_release(active, d, TRUE), d),
          dev |-> d, reacquire |-> FALSE,
          calls |-> cl0 \o <<Call("release", ifp.name, d, active),
                             Call("stop", ifp.name, d, active)>>]
    ELSE [active |-> ni_dhcp_device_stop(active, d), dev |-> d, reacquire |-> FALSE,
          calls |-> Append(cl0, Call("stop", ifp.name, d, active))]

\* dhcp_interface_put, lines 267-270: the interface is administratively down
put_down(active, ifp, d, cl0) ==
    [active |-> ni_dhcp_device_stop(active, d), dev |-> d, reacquire |-> FALSE,
     calls |-> Append(cl0, Call("stop", ifp.name, d, active))]

\* dhcp_interface_put, lines 276-288. With dev NULL and reacquire unset,
\* line 279 stores through a null pointer: the process dies of SIGSEGV, or
\* the store is dropped by the build and the handler returns.
put_finish(s, ifp) ==
    IF ~s.reacquire
    THEN IF s.dev = 0
         THEN {Outcome(s.active, -1, "", NoXml, s.calls, 0, FALSE, "open", TRUE),
               Outcome(s.active, 0, "", NoXml, s.calls, 0, FALSE, "closed", FALSE)}
         ELSE {Outcome([s.active EXCEPT ![s.dev].notify = TRUE], 0, "", NoXml,
                       s.calls, s.dev, FALSE, "closed", FALSE)}
    ELSE IF s.active[s.dev].config # NoConfig
         THEN {Outcome(ni_dhcp_device_start(s.active, s.dev), 0, "", NoXml,
                       Append(s.calls, Call("start", ifp.name, s.dev, s.active)),
                       s.dev, TRUE, "closed", FALSE)}
         ELSE {Outcome(s.active, 0, "", NoXml, s.calls, s.dev, TRUE, "closed", FALSE)}

\* ni_interface_by_name on the dummy handle: the descriptions named ifname
ni_interface_by_name(ifs, ifname) == {i \in ifs : i.name = ifname}

\* dhcp_interface_put registering the device before it looks for the
\* description of the interface
dhcp_interface_put_early(active, ifname, in) ==
    IF ifname = NoName
    THEN {Outcome(active, -1, "no interface name given", NoXml,
                  <<>>, 0, FALSE, "none", FALSE)}
    ELSE IF ~in.open_ok
    THEN {Outcome(active, -1, "unable to create netinfo dummy handle", NoXml,
                  <<>>, 0, FALSE, "none", FALSE)}
    ELSE IF ~in.body.ok
    THEN {Outcome(active, -1, "unable to parse interface configuration", NoXml,
                  <<>>, 0, FALSE, "closed", FALSE)}
    ELSE IF ni_interface_by_name(in.body.ifs, ifname) = {}
    THEN {Outcome(IF ni_dhcp_device_find(active, ifname) = 0
                  THEN ni_dhcp_device_new(active, ifname, TypeOf(ifname))
                  ELSE active,
                  -1, "cannot find configuration for interface", NoXml,
                  <<>>, 0, FALSE, "closed", FALSE)}
    ELSE LET ifp == CHOOSE i \in ni_interface_by_name(in.body.ifs, ifname) : TRUE
             d   == ni_dhcp_device_find(active, ifp.name)
             cl  == <<Call("find", ifp.name, d, active)>> IN
         IF ifp.up
         THEN put_finish(put_up(active, ifp, cl), ifp)
         ELSE put_finish(put_down(active, ifp, d, cl), ifp)

\* dhcp_interface_put returning from the parse error without the ni_close of
\* line 286
dhcp_interface_put_leak(active, ifname, in) ==
    IF ifname = NoName
    THEN {Outcome(active, -1, "no interface name given", NoXml,
                  <<>>, 0, FALSE, "none", FALSE)}
    ELSE IF ~in.open_ok
    THEN {Outcome(active, -1, "unable to create netinfo dummy handle", NoXml,
                  <<>>, 0, FALSE, "none", FALSE)}
    ELSE IF ~in.body.ok
    THEN {Outcome(active, -1, "unable to parse interface configuration", NoXml,
                  <<>>, 0, FALSE, "open", FALSE)}
    ELSE IF ni_interface_by_name(in.body.ifs, ifname) = {}
    THEN {Outcome(active, -1, "cannot find configuration for interface", NoXml,
                  <<>>, 0, FALSE, "closed", FALSE)}
    ELSE LET ifp == CHOOSE i \in ni_interface_by_name(in.body.ifs, ifname) : TRUE
             d   == ni_dhcp_device_find(active, ifp.name)
             cl  == <<Call("find", ifp.name, d, active)>> IN
         IF ifp.up
         THEN put_finish(put_up(active, ifp, cl), ifp)
         ELSE put_finish(put_down(active, ifp, d, cl), ifp)

\* dhcp_interface_put, lines 220-289
dhcp_interface_put(active, ifname, in) ==
    IF ifname = NoName
    THEN {Outcome(active, -1, "no interface name given", NoXml,
                  <<>>, 0, FALSE, "none", FALSE)}
    ELSE IF ~in.open_ok
    THEN {Outcome(active, -1, "unable to create netinfo dummy handle", NoXml,
                  <<>>, 0, FALSE, "none", FALSE)}
    ELSE IF ~in.body.ok
    THEN {Outcome(active, -1, "unable to parse interface configuration", NoXml,
                  <<>>, 0, FALSE, "closed", FALSE)}
    ELSE IF ni_interface_by_name(in.body.ifs, ifname) = {}
    THEN {Outcome(active, -1, "cannot find configuration for interface", NoXml,
                  <<>>, 0, FALSE, "closed", FALSE)}
    ELSE LET ifp == CHOOSE i \in ni_interface_by_name(in.body.ifs, ifname) : TRUE
             d   == ni_dhcp_device_find(active, ifp.name)
             cl  == <<Call("find", ifp.name, d, active)>> IN
         IF ifp.up
         THEN put_finish(put_up(active, ifp, cl), ifp)
         ELSE put_finish(put_down(active, ifp, d, cl), ifp)

(***************************************************************************)
(* The dispatch tree, lines 310-335, and ni_dhcp_process_request           *)
(***************************************************************************)
\* the tree with .delete also set in ni_dhcp_device_node
ni_dhcp_root_node_loose(resource, method) ==
    IF resource = "interface" /\ method = "PUT" THEN "dhcp_interface_put"
    ELSE IF method = "DELETE" /\ resource \in {"interface", "device"}
    THEN "dhcp_interface_delete"
    ELSE IF resource = "device" /\ method = "GET" THEN "dhcp_device_get"
    ELSE "none"

\* the handler bound to a method of a child of ni_dhcp_root_node
ni_dhcp_root_node(resource, method) ==
    IF resource = "interface" /\ method = "PUT" THEN "dhcp_interface_put"
    ELSE IF resource = "interface" /\ method = "DELETE" THEN "dhcp_interface_delete"
    ELSE IF resource = "device" /\ method = "GET" THEN "dhcp_device_get"
    ELSE "none"

\* __ni_wicked_call_direct: resolves the path against the tree and calls
\* the handler bound to the method; an error when nothing is bound
ni_wicked_call_direct(active, in) ==
    LET h == ni_dhcp_root_node(in.resource, in.method) IN
    IF h = "dhcp_interface_put" THEN dhcp_interface_put(active, in.name, in)
    ELSE IF h = "dhcp_interface_delete" THEN dhcp_interface_delete(active, in.name, in)
    ELSE IF h = "dhcp_device_get" THEN dhcp_device_get(active, in.name, in)
    ELSE {Outcome(active, -1, "no such resource or method", NoXml,
                  <<>>, 0, FALSE, "none", FALSE)}

\* ni_dhcp_process_request, lines 108-128, after a successful pull
ni_dhcp_process_request(active, in) ==
    IF ~in.parse_ok
    THEN {[handler |-> "none"] @@
          Outcome(active, -1, "cannot parse request", NoXml, <<>>, 0, FALSE, "none", FALSE)}
    ELSE {[handler |-> ni_dhcp_root_node(in.resource, in.method)] @@ o :
            o \in ni_wicked_call_direct(active, in)}

(***************************************************************************)
(* ni_dhcp_send_device_event, lines 130-151, and the shutdown sequence     *)
(***************************************************************************)
NoEvent == [ifname |-> NoName, body |-> NoXml]

\* the message written to the socket for device d, nothing if rendering fails
ni_dhcp_send_device_event(d, codec_ok) ==
    LET devnode == dhcp_device_xml(d, codec_ok) IN
    IF devnode = NoXml THEN NoEvent
    ELSE [ifname |-> d.ifname, body |-> devnode]

\* the switch without the case of NI_DHCP_STATE_BOUND
ReleaseOnShutdown_nobound(d) ==
    /\ d.state \in {"NI_DHCP_STATE_REQUESTING", "NI_DHCP_STATE_RENEWING",
                    "NI_DHCP_STATE_REBINDING"}
    /\ d.lease # NoLease

\* the switch without the test of dev->lease
ReleaseOnShutdown_nolease(d) ==
    d.state \in ActiveStates

\* lines 90-98: the devices ni_dhcp_run releases before stopping them
ReleaseOnShutdown(d) ==
    d.state \in ActiveStates /\ d.lease # NoLease

\* line 89: dev->next
NextDev(active, d) == IF d < Len(active) THEN d + 1 ELSE 0

(***************************************************************************)
(* Requests arriving on the control socket                                 *)
(***************************************************************************)
Methods == {"GET", "PUT", "DELETE", "POST"}
Resources == {"interface", "device", "bogus"}

\* the interface descriptions a PUT body may hold
Descs == {[name |-> n, type |-> TypeOf(n), up |-> u, config |-> c] :
            n \in Names, u \in BOOLEAN, c \in Configs}
EmptyBody == [ok |-> TRUE, ifs |-> {}]
BadBody == [ok |-> FALSE, ifs |-> {}]

Request(parse_ok, method, resource, name, body, open_ok, codec_ok) ==
    [parse_ok |-> parse_ok, method |-> method, resource |-> resource,
     name |-> name, body |-> body, open_ok |-> open_ok, codec_ok |-> codec_ok]

Requests ==
    {Request(FALSE, "GET", "bogus", NoName, EmptyBody, TRUE, TRUE)}
    \cup {Request(TRUE, m, r, n, EmptyBody, TRUE, TRUE) :
            m \in Methods, r \in Resources, n \in Names \cup {NoName}}
    \cup {Request(TRUE, "PUT", "interface", n, [ok |-> TRUE, ifs |-> {i}], TRUE, TRUE) :
            n \in Names, i \in Descs}
    \cup {Request(TRUE, "PUT", "interface", n, BadBody, TRUE, TRUE) : n \in Names}
    \cup {Request(TRUE, "PUT", "interface", n, EmptyBody, FALSE, TRUE) : n \in Names}
    \cup {Request(TRUE, "GET", "device", n, EmptyBody, TRUE, FALSE) : n \in Names}

NoRequest == Request(FALSE, "none", "none", NoName, EmptyBody, TRUE, TRUE)

NoReq ==
    [handled |-> FALSE, in |-> NoRequest, handler |-> "none", rv |-> 0, err |-> "",
     xml_out |-> NoXml, dev |-> 0, reacquire |-> FALSE, cnih |-> "none",
     crashed |-> FALSE]

(***************************************************************************)
(* ni_dhcp_run, lines 47-103                                               *)
(***************************************************************************)
Running == {"wait", "check", "sweep", "drain", "shutdown", "shutdown_stop"}

\* the devices the state machine is driving: those with a configuration
Managed(active) == {i \in 1..Len(active) : active[i].config # NoConfig}

Init ==
    /\ pc = "start"
    /\ ni_dhcp_stop = 0
    /\ ni_dhcp_active = <<>>
    /\ dev = 0
    /\ last = NoReq
    /\ calls = <<>>
    /\ sent = NoEvent
    /\ atExit = <<>>
    /\ seeded = 0
    /\ exitStatus = -1
    /\ rng = NoRng
    /\ wire = NoWire

\* lines 53-61: seed, install the signal handlers, activate the socket
Startup ==
    /\ pc = "start"
    /\ seeded' = seeded + 1
    /\ pc' = "wait"
    /\ UNCHANGED <<ni_dhcp_stop, ni_dhcp_active, dev, last, calls, sent, atExit, exitStatus>>
    /\ UNCHANGED <<rng, wire>>

\* catch_fatal_signals, lines 38-42: runs at any point once installed
Signal(sig) ==
    /\ pc \in Running
    /\ ni_dhcp_stop # sig
    /\ ni_dhcp_stop' = sig
    /\ UNCHANGED <<pc, ni_dhcp_active, dev, last, calls, sent, atExit, seeded, exitStatus>>
    /\ UNCHANGED <<rng, wire>>

\* line 74, the socket is readable: ni_dhcp_process_request runs inside
\* ni_socket_wait
WaitRequest(in) ==
    /\ pc = "wait"
    /\ \E o \in ni_dhcp_process_request(ni_dhcp_active, in) :
        /\ Len(o.active) <= MaxDevices
        /\ ni_dhcp_active' = o.active
        /\ calls' = o.calls
        /\ last' = [handled |-> TRUE, in |-> in, handler |-> o.handler, rv |-> o.rv,
                    err |-> o.err, xml_out |-> o.xml_out, dev |-> o.dev,
                    reacquire |-> o.reacquire, cnih |-> o.cnih, crashed |-> o.crashed]
        /\ pc' = IF o.crashed THEN "crashed" ELSE "check"
    /\ UNCHANGED <<ni_dhcp_stop, dev, sent, atExit, seeded, exitStatus>>
    /\ UNCHANGED <<rng, wire>>

\* lines 115-118: the message cannot be pulled from the socket
WaitPullFail ==
    /\ pc = "wait"
    /\ pc' = "check"
    /\ last' = NoReq
    /\ calls' = <<>>
    /\ UNCHANGED <<ni_dhcp_stop, ni_dhcp_active, dev, sent, atExit, seeded, exitStatus>>
    /\ UNCHANGED <<rng, wire>>

\* line 74, a DHCP packet arrives: it has been processed when the wait returns
WaitPacket(d, st, l, f) ==
    /\ pc = "wait"
    /\ d \in Managed(ni_dhcp_active)
    /\ ni_dhcp_active' = FsmStep(ni_dhcp_active, d, st, l, f)
    /\ pc' = "check"
    /\ last' = NoReq
    /\ calls' = <<>>
    /\ UNCHANGED <<ni_dhcp_stop, dev, sent, atExit, seeded, exitStatus>>
    /\ UNCHANGED <<rng, wire>>

\* line 74, the wait returns 0 with nothing to do
WaitTimeout ==
    /\ pc = "wait"
    /\ pc' = "check"
    /\ last' = NoReq
    /\ calls' = <<>>
    /\ UNCHANGED <<ni_dhcp_stop, ni_dhcp_active, dev, sent, atExit, seeded, exitStatus>>
    /\ UNCHANGED <<rng, wire>>

\* lines 74-75: the wait fails, ni_fatal ends the process
WaitFail ==
    /\ pc = "wait"
    /\ pc' = "fatal"
    /\ exitStatus' = 1
    /\ last' = NoReq
    /\ calls' = <<>>
    /\ UNCHANGED <<ni_dhcp_stop, ni_dhcp_active, dev, sent, atExit, seeded>>
    /\ UNCHANGED <<rng, wire>>

\* lines 77-80 and the head of the loop of line 89
CheckStop ==
    /\ pc = "check"
    /\ last' = NoReq
    /\ calls' = <<>>
    /\ IF ni_dhcp_stop # 0
       THEN /\ pc' = "shutdown"
            /\ dev' = IF Len(ni_dhcp_active) > 0 THEN 1 ELSE 0
            /\ atExit' = ni_dhcp_active
       ELSE /\ pc' = "sweep"
            /\ UNCHANGED <<dev, atExit>>
    /\ UNCHANGED <<ni_dhcp_stop, ni_dhcp_active, sent, seeded, exitStatus>>
    /\ UNCHANGED <<rng, wire>>

\* the flag looked at once more after the sweep, the loop left before the drain
SweepNone_exit ==
    /\ pc = "sweep"
    /\ IF ni_dhcp_stop # 0
       THEN /\ pc' = "shutdown"
            /\ dev' = IF Len(ni_dhcp_active) > 0 THEN 1 ELSE 0
            /\ atExit' = ni_dhcp_active
       ELSE /\ pc' = "drain"
            /\ UNCHANGED <<dev, atExit>>
    /\ UNCHANGED <<ni_dhcp_stop, ni_dhcp_active, last, calls, sent, seeded, exitStatus>>
    /\ UNCHANGED <<rng, wire>>

\* line 83, ni_dhcp_fsm_check_timeout: no timer matured
SweepNone ==
    /\ pc = "sweep"
    /\ pc' = "drain"
    /\ UNCHANGED <<ni_dhcp_stop, ni_dhcp_active, dev, last, calls, sent, atExit, seeded, exitStatus>>
    /\ UNCHANGED <<rng, wire>>

\* line 83, ni_dhcp_fsm_check_timeout: a timer of device d matured
SweepTimer(d, st, l, f) ==
    /\ pc = "sweep"
    /\ d \in Managed(ni_dhcp_active)
    /\ ni_dhcp_active' = FsmStep(ni_dhcp_active, d, st, l, f)
    /\ pc' = "drain"
    /\ UNCHANGED <<ni_dhcp_stop, dev, last, calls, sent, atExit, seeded, exitStatus>>
    /\ UNCHANGED <<rng, wire>>

\* lines 85-86, one turn of the loop: a changed device is taken and its event sent
DrainOne(codec_ok) ==
    /\ pc = "drain"
    /\ LET d == ni_dhcp_device_get_changed(ni_dhcp_active) IN
        /\ d # 0
        /\ ni_dhcp_active' = [ni_dhcp_active EXCEPT ![d].notify = FALSE]
        /\ sent' = ni_dhcp_send_device_event(ni_dhcp_active'[d], codec_ok)
    /\ UNCHANGED <<pc, ni_dhcp_stop, dev, last, calls, atExit, seeded, exitStatus>>
    /\ UNCHANGED <<rng, wire>>

\* the drain loop left after one look, whether or not a device is still flagged
DrainDone_early ==
    /\ pc = "drain"
    /\ pc' = "wait"
    /\ sent' = NoEvent
    /\ UNCHANGED <<ni_dhcp_stop, ni_dhcp_active, dev, last, calls, atExit, seeded, exitStatus>>
    /\ UNCHANGED <<rng, wire>>

\* line 85: no device is flagged, back to the head of the event loop
DrainDone ==
    /\ pc = "drain"
    /\ ni_dhcp_device_get_changed(ni_dhcp_active) = 0
    /\ pc' = "wait"
    /\ sent' = NoEvent
    /\ UNCHANGED <<ni_dhcp_stop, ni_dhcp_active, dev, last, calls, atExit, seeded, exitStatus>>
    /\ UNCHANGED <<rng, wire>>

\* lines 90-98: the switch on the state of the device under the cursor
ShutdownRelease(ok) ==
    /\ pc = "shutdown"
    /\ dev # 0
    /\ IF ReleaseOnShutdown(ni_dhcp_active[dev])
       THEN /\ ni_dhcp_active' = ni_dhcp_fsm_release(ni_dhcp_active, dev, ok)
            /\ calls' = Append(calls, Call("release", ni_dhcp_active[dev].ifname,
                                           dev, ni_dhcp_active))
       ELSE UNCHANGED <<ni_dhcp_active, calls>>
    /\ pc' = "shutdown_stop"
    /\ UNCHANGED <<ni_dhcp_stop, dev, last, sent, atExit, seeded, exitStatus>>
    /\ UNCHANGED <<rng, wire>>

\* the stop moved into the switch: only devices in an active state are stopped
ShutdownStop_active ==
    /\ pc = "shutdown_stop"
    /\ IF ni_dhcp_active[dev].state \in ActiveStates
       THEN /\ ni_dhcp_active' = ni_dhcp_device_stop(ni_dhcp_active, dev)
            /\ calls' = Append(calls, Call("stop", ni_dhcp_active[dev].ifname,
                                           dev, ni_dhcp_active))
       ELSE UNCHANGED <<ni_dhcp_active, calls>>
    /\ dev' = NextDev(ni_dhcp_active', dev)
    /\ pc' = "shutdown"
    /\ UNCHANGED <<ni_dhcp_stop, last, sent, atExit, seeded, exitStatus>>
    /\ UNCHANGED <<rng, wire>>

\* line 99 and the step dev = dev->next of line 89
ShutdownStop ==
    /\ pc = "shutdown_stop"
    /\ ni_dhcp_active' = ni_dhcp_device_stop(ni_dhcp_active, dev)
    /\ calls' = Append(calls, Call("stop", ni_dhcp_active[dev].ifname,
                                   dev, ni_dhcp_active))
    /\ dev' = NextDev(ni_dhcp_active', dev)
    /\ pc' = "shutdown"
    /\ UNCHANGED <<ni_dhcp_stop, last, sent, atExit, seeded, exitStatus>>
    /\ UNCHANGED <<rng, wire>>

\* line 102
Exit ==
    /\ pc = "shutdown"
    /\ dev = 0
    /\ pc' = "exited"
    /\ exitStatus' = 0
    /\ UNCHANGED <<ni_dhcp_stop, ni_dhcp_active, dev, last, calls, sent, atExit, seeded>>
    /\ UNCHANGED <<rng, wire>>

Next ==
    \/ Startup
    \/ \E sig \in {SIGINT, SIGTERM} : Signal(sig)
    \/ \E in \in Requests : WaitRequest(in)
    \/ WaitPullFail
    \/ \E d \in 1..MaxDevices, st \in States, l \in Leases \cup {NoLease}, f \in BOOLEAN :
          WaitPacket(d, st, l, f)
    \/ WaitTimeout
    \/ WaitFail
    \/ CheckStop
    \/ SweepNone
    \/ \E d \in 1..MaxDevices, st \in States, l \in Leases \cup {NoLease}, f \in BOOLEAN :
          SweepTimer(d, st, l, f)
    \/ \E codec_ok \in BOOLEAN : DrainOne(codec_ok)
    \/ DrainDone
    \/ \E ok \in BOOLEAN : ShutdownRelease(ok)
    \/ ShutdownStop
    \/ Exit

Spec == Init /\ [][Next]_vars

(***************************************************************************)
(* Vocabulary of the properties                                            *)
(***************************************************************************)
\* the calls of kind op made on device d by the current operation
CallsOf(op, d) == {k \in 1..Len(calls) : calls[k].op = op /\ calls[k].dev = d}
CallsOp(op) == {k \in 1..Len(calls) : calls[k].op = op}

\* the request just handled was bound to handler h and named an interface
Handled(h) == last.handled /\ last.handler = h /\ last.in.name \in Names

\* the description of the named interface in the body of the PUT just handled
PutParsed ==
    /\ Handled("dhcp_interface_put")
    /\ last.in.open_ok /\ last.in.body.ok
    /\ ni_interface_by_name(last.in.body.ifs, last.in.name) # {}
PutIfp == CHOOSE i \in ni_interface_by_name(last.in.body.ifs, last.in.name) : TRUE

\* the devices registered under a name
DevicesNamed(n) == {i \in 1..Len(ni_dhcp_active) : ni_dhcp_active[i].ifname = n}

\* this step is ni_dhcp_process_request handling a request
RequestStep == pc = "wait" /\ last'.handled

\* C1: a PUT interface/N that parses, describes N as up and finds no device
\* for N creates exactly one device N of the description's link type, applies
\* the configuration, sets reacquire, requests start for that device, leaves
\* its notify flag unset and returns success.
C1_PutCreates ==
    (PutParsed /\ PutIfp.up /\ calls[1].dev = 0) =>
        /\ last.rv = 0 /\ ~last.crashed /\ last.reacquire
        /\ Cardinality(DevicesNamed(last.in.name)) = 1
        /\ DevicesNamed(last.in.name) = {last.dev}
        /\ Cardinality(CallsOp("new")) = 1
        /\ CallsOf("new", last.dev) # {}
        /\ ni_dhcp_active[last.dev].iftype = PutIfp.type
        /\ ni_dhcp_active[last.dev].config = PutIfp.config
        /\ Cardinality(CallsOf("start", last.dev)) = 1
        /\ CallsOp("start") = CallsOf("start", last.dev)
        /\ ~ni_dhcp_active[last.dev].notify

C1_Witness ==
    /\ PutParsed /\ PutIfp.up /\ calls[1].dev = 0
    /\ last.in.name = "wlan0" /\ Len(ni_dhcp_active) = 2
    /\ CallsOf("start", 2) # {}

\* C2: a PUT interface/N marked down while a device for N is registered
\* requests a stop of that device, requests no release, and returns success.
C2_PutDownStops ==
    (PutParsed /\ ~PutIfp.up /\ calls[1].dev # 0) =>
        /\ last.rv = 0 /\ ~last.crashed
        /\ Cardinality(CallsOf("stop", calls[1].dev)) = 1
        /\ CallsOp("stop") = CallsOf("stop", calls[1].dev)
        /\ CallsOp("release") = {}

C2_Witness ==
    /\ PutParsed /\ ~PutIfp.up /\ calls[1].dev # 0
    /\ calls[1].state = "NI_DHCP_STATE_BOUND" /\ calls[1].lease
    /\ CallsOf("stop", calls[1].dev) # {}

\* C3: a PUT interface/N that parses, describes N as down and finds no device
\* for N reaches its return, with success and no body or with a failure and
\* a message; no device for N appears and the process keeps running.
C3_PutDownNoDevice ==
    (PutParsed /\ ~PutIfp.up /\ calls[1].dev = 0) =>
        /\ ~last.crashed
        /\ pc \in Running
        /\ \/ last.rv = 0 /\ last.xml_out = NoXml
           \/ last.rv < 0 /\ last.err # ""
        /\ DevicesNamed(last.in.name) = {}

\* the status the renderer is to hand to the codec for device d
RenderedStatus(d) ==
    CASE d.failed ->
            [type |-> "NI_ADDRCONF_DHCP", family |-> "AF_INET",
             state |-> "NI_ADDRCONF_STATE_FAILED", data |-> "NULL"]
      [] ~d.failed /\ d.lease # NoLease -> d.lease
      [] OTHER ->
            [type |-> "NI_ADDRCONF_DHCP", family |-> "AF_INET",
             state |-> "NI_ADDRCONF_STATE_RELEASED", data |-> "NULL"]

C4_GetOutcome ==
    Handled("dhcp_device_get") =>
        IF calls[1].dev = 0
        THEN /\ last.rv < 0 /\ last.err = "interface not known"
             /\ last.xml_out = NoXml
             /\ DevicesNamed(last.in.name) = {}
        ELSE IF last.in.codec_ok
        THEN /\ last.rv = 0
             /\ last.xml_out = [doc |-> "lease",
                                lease |-> RenderedStatus(ni_dhcp_active[calls[1].dev])]
        ELSE /\ last.rv < 0 /\ last.xml_out = NoXml

C4_GetFrame ==
    (RequestStep /\ last'.handler = "dhcp_device_get") =>
        ni_dhcp_active' = ni_dhcp_active

\* C4: GET device/<name> for a name that is not registered fails with a
\* not-found error, sets no body and creates no device; for a registered
\* name it attaches the rendered status, or fails without a body when the
\* rendering fails; in every case the device list is left as it was.
C4_Get == [](C4_GetOutcome) /\ [][C4_GetFrame]_vars

C4_Witness ==
    /\ Handled("dhcp_device_get")
    /\ calls[1].dev = 0
    /\ Len(ni_dhcp_active) = 1
    /\ last.rv < 0

C5_DeleteOutcome ==
    (last.handled /\ last.handler = "dhcp_interface_delete" /\ last.in.name \in Names) =>
        /\ last.rv = 0 /\ ~last.crashed
        /\ CallsOp("release") = {}
        /\ CallsOp("stop") = CallsOf("stop", calls[1].dev)
        /\ Cardinality(CallsOp("stop")) = IF calls[1].dev = 0 THEN 0 ELSE 1

C5_DeleteFrame ==
    (/\ RequestStep /\ last'.handler = "dhcp_interface_delete"
     /\ DevicesNamed(last'.in.name) = {}) =>
        ni_dhcp_active' = ni_dhcp_active

\* C5: DELETE interface/<name> with a name always returns success, whatever
\* came before it: with a device registered it requests a stop of that device
\* and no release; with none it leaves the device list as it was.
C5_Delete == [](C5_DeleteOutcome) /\ [][C5_DeleteFrame]_vars

C5_Witness ==
    /\ last.handled /\ last.handler = "dhcp_interface_delete"
    /\ last.rv = 0
    /\ calls[1].dev = 2
    /\ calls[1].state = "NI_DHCP_STATE_BOUND" /\ calls[1].lease
    /\ CallsOf("stop", 2) # {}

\* the request cannot be parsed or nothing is bound to its resource and method
Unroutable(in) ==
    \/ ~in.parse_ok
    \/ in.resource \notin {"interface", "device"}
    \/ in.resource = "interface" /\ in.method \notin {"PUT", "DELETE"}
    \/ in.resource = "device" /\ in.method # "GET"

C6_UnroutableOutcome ==
    (last.handled /\ Unroutable(last.in)) =>
        /\ last.rv < 0 /\ last.err # ""
        /\ last.handler = "none"
        /\ calls = <<>>
        /\ ~last.crashed
        /\ pc = "check"

C6_UnroutableFrame ==
    (RequestStep /\ Unroutable(last'.in)) => ni_dhcp_active' = ni_dhcp_active

\* C6: a request that does not parse, or names another resource than
\* interface and device, or a method not bound on the resource, ends in an
\* error, runs no handler, changes no device and leaves the loop running.
C6_Unroutable == [](C6_UnroutableOutcome) /\ [][C6_UnroutableFrame]_vars

C6_Witness ==
    /\ last.handled /\ Unroutable(last.in)
    /\ last.in.parse_ok /\ last.in.resource = "device" /\ last.in.method = "DELETE"
    /\ Len(ni_dhcp_active) = 2
    /\ last.rv < 0 /\ pc = "check"

\* a device the shutdown sequence is to release: in one of the four active
\* states and holding a lease
Eligible(d) ==
    /\ d.state \in {"NI_DHCP_STATE_REQUESTING", "NI_DHCP_STATE_RENEWING",
                    "NI_DHCP_STATE_REBINDING", "NI_DHCP_STATE_BOUND"}
    /\ d.lease # NoLease

InShutdown == pc \in {"shutdown", "shutdown_stop", "exited"}

\* C7: in the shutdown sequence every device of the list that is in an
\* active state and holds a lease has a release requested exactly once,
\* before its stop is requested, and the process exits with status 0.
C7_ShutdownReleases ==
    /\ InShutdown =>
        \A i \in 1..Len(atExit) :
            /\ Cardinality(CallsOf("release", i)) <= 1
            /\ \A s \in CallsOf("stop", i) :
                 Eligible(atExit[i]) => \E r \in CallsOf("release", i) : r < s
    /\ pc = "exited" =>
        /\ exitStatus = 0
        /\ \A i \in 1..Len(atExit) :
            Eligible(atExit[i]) =>
                /\ Cardinality(CallsOf("release", i)) = 1
                /\ CallsOf("stop", i) # {}

C7_Witness ==
    /\ pc = "exited" /\ exitStatus = 0
    /\ Len(atExit) = 2
    /\ atExit[2].state = "NI_DHCP_STATE_BOUND" /\ atExit[2].lease # NoLease
    /\ CallsOf("release", 2) # {}

\* C8: a release is only ever requested for a device in one of the four
\* active states that holds a lease; the shutdown sequence stops every other
\* device without requesting a release for it.
C8_ReleaseOnlyEligible ==
    /\ \A k \in CallsOp("release") :
          /\ calls[k].state \in {"NI_DHCP_STATE_REQUESTING", "NI_DHCP_STATE_RENEWING",
                                 "NI_DHCP_STATE_REBINDING", "NI_DHCP_STATE_BOUND"}
          /\ calls[k].lease
    /\ pc = "exited" =>
        \A i \in 1..Len(atExit) :
            ~Eligible(atExit[i]) =>
                /\ CallsOf("release", i) = {}
                /\ Cardinality(CallsOf("stop", i)) = 1

C8_Witness ==
    /\ pc = "exited"
    /\ Len(atExit) = 2
    /\ atExit[1].state = "NI_DHCP_STATE_BOUND" /\ atExit[1].lease = NoLease
    /\ atExit[2].state = "NI_DHCP_STATE_INIT" /\ atExit[2].lease # NoLease
    /\ CallsOp("release") = {}
    /\ CallsOf("stop", 1) # {} /\ CallsOf("stop", 2) # {}

C10_Rendered ==
    /\ \A i \in 1..Len(ni_dhcp_active) :
          dhcp_device_xml(ni_dhcp_active[i], TRUE) =
            [doc |-> "lease", lease |-> RenderedStatus(ni_dhcp_active[i])]
    /\ (Handled("dhcp_device_get") /\ last.rv = 0) =>
          last.xml_out.lease = RenderedStatus(ni_dhcp_active[last.dev])
    /\ sent # NoEvent =>
          \E i \in DevicesNamed(sent.ifname) :
              sent.body.lease = RenderedStatus(ni_dhcp_active[i])

C10_Witness ==
    /\ Handled("dhcp_device_get") /\ last.rv = 0
    /\ ni_dhcp_active[last.dev].failed
    /\ ni_dhcp_active[last.dev].lease # NoLease
    /\ last.xml_out.lease.state = "NI_ADDRCONF_STATE_FAILED"
    /\ last.xml_out.lease.family = "AF_INET"
    /\ last.xml_out.lease.type = "NI_ADDRCONF_DHCP"

(***************************************************************************)
(* ni_srandom, lines 340-364, step by step, as called at line 53           *)
(***************************************************************************)
RECURSIVE Xor(_, _)
\* a ^ b on non-negative integers
Xor(a, b) ==
    IF a = 0 THEN b
    ELSE IF b = 0 THEN a
    ELSE (((a % 2) + (b % 2)) % 2) + 2 * Xor(a \div 2, b \div 2)

\* Machine words are sequences of 16-bit digits, lowest first: two for a
\* uint32_t, four for the 64-bit long and time_t.
Zero32 == <<0, 0>>
\* the uint32_t holding x, for 0 <= x < 2^31
W32(x) == <<x % 65536, (x \div 65536) % 65536>>
\* a 32-bit value widened to 64 bits, and a 64-bit value assigned to a uint32_t
Ext64(w) == <<w[1], w[2], 0, 0>>
Low32(w) == <<w[1], w[2]>>
Xor64(a, b) == [k \in 1..4 |-> Xor(a[k], b[k])]

\* what the system may hand ni_srandom: whether open() succeeds, the count
\* read() returns, the four bytes it would deliver, the clock (tv_usec,
\* 64-bit tv_sec), the pid
SeedInputs ==
    [open_ok : BOOLEAN,
     nread   : {-1, 0, 3, 4},
     val     : {Zero32, <<1, 0>>, <<22136, 4660>>, <<65535, 65535>>},
     usec    : {0, 500000, 999999},
     sec     : {W32(1000000000) \o <<0, 0>>, <<5, 0, 1, 0>>},
     pid     : {1, 42}]

\* lines 358-360 with the seed left without the pid
FallbackSeed_nopid(usec, sec, pid) ==
    Low32(Xor64(Ext64(W32(Xor(usec, usec \div 1024))), sec))

\* lines 358-360: the seed derived from the clock and the pid, each
\* assignment cutting the value to the 32 bits of seed
FallbackSeed(usec, sec, pid) ==
    LET s1 == W32(Xor(usec, usec \div 1024))
        s2 == Low32(Xor64(Ext64(s1), sec))
    IN  Low32(Xor64(Ext64(s2), Ext64(W32(pid))))

SeedInit ==
    /\ pc = "start"
    /\ ni_dhcp_stop = 0
    /\ ni_dhcp_active = <<>>
    /\ dev = 0
    /\ last = NoReq
    /\ calls = <<>>
    /\ sent = NoEvent
    /\ atExit = <<>>
    /\ seeded = 0
    /\ exitStatus = -1
    /\ wire = NoWire
    /\ \E in \in SeedInputs :
          rng = [at |-> "open", in |-> in, fd |-> FALSE, seed |-> Zero32, srandom |-> <<>>]

SeedFrame ==
    UNCHANGED <<ni_dhcp_stop, ni_dhcp_active, dev, last, calls, sent, atExit,
                exitStatus, wire>>

\* lines 343-346 and 350-352: open("/dev/urandom")
SrOpen ==
    /\ pc = "start" /\ rng.at = "open"
    /\ rng' = IF rng.in.open_ok
              THEN [rng EXCEPT !.at = "read", !.fd = TRUE]
              ELSE [rng EXCEPT !.at = "check"]
    /\ UNCHANGED <<pc, seeded>>
    /\ SeedFrame

\* lines 347-349: read four bytes into seed, close
SrRead ==
    /\ pc = "start" /\ rng.at = "read"
    /\ rng' = [rng EXCEPT !.at = "check", !.fd = FALSE,
                          !.seed = IF rng.in.nread < 4 THEN Zero32 ELSE rng.in.val]
    /\ UNCHANGED <<pc, seeded>>
    /\ SeedFrame

\* lines 354-361: the fallback when seed is still 0
SrFallback ==
    /\ pc = "start" /\ rng.at = "check"
    /\ rng' = [rng EXCEPT !.at = "srandom",
                          !.seed = IF rng.seed = Zero32
                                   THEN FallbackSeed(rng.in.usec, rng.in.sec, rng.in.pid)
                                   ELSE rng.seed]
    /\ UNCHANGED <<pc, seeded>>
    /\ SeedFrame

\* line 363: srandom(seed)
SrSrandom ==
    /\ pc = "start" /\ rng.at = "srandom"
    /\ rng' = [rng EXCEPT !.at = "done", !.srandom = Append(rng.srandom, rng.seed)]
    /\ seeded' = seeded + 1
    /\ UNCHANGED pc
    /\ SeedFrame

\* lines 55-64: ni_srandom has returned, the event loop is entered
SrEnterLoop ==
    /\ pc = "start" /\ rng.at = "done"
    /\ pc' = "wait"
    /\ UNCHANGED <<rng, seeded>>
    /\ SeedFrame

SeedNext ==
    \/ SrOpen
    \/ SrRead
    \/ SrFallback
    \/ SrSrandom
    \/ SrEnterLoop

SeedSpec == SeedInit /\ [][SeedNext]_vars

\* the entropy read gave nothing: open or read failed, or the value is zero
NoEntropy(in) == ~in.open_ok \/ in.nread < 4 \/ in.val = <<0, 0>>

\* C11: the generator is seeded exactly once, before the event loop starts:
\* with ((usec XOR (usec div 1024)) XOR sec XOR pid) cut to 32 bits when the
\* entropy device cannot be opened, gives fewer than 4 bytes or gives zero,
\* and with the 32-bit value read otherwise.
C11_Seed ==
    /\ Len(rng.srandom) <= 1
    /\ Len(rng.srandom) = seeded
    /\ pc = "wait" => Len(rng.srandom) = 1
    /\ Len(rng.srandom) = 1 =>
          rng.srandom[1] =
            IF NoEntropy(rng.in)
            THEN LET x == Xor64(Xor64(Ext64(W32(Xor(rng.in.usec, rng.in.usec \div 1024))),
                                      rng.in.sec),
                                Ext64(W32(rng.in.pid)))
                 IN  <<x[1], x[2]>>
            ELSE rng.in.val
    /\ (/\ Len(rng.srandom) = 1 /\ NoEntropy(rng.in)
        /\ rng.in.usec = 500000 /\ rng.in.sec = <<51712, 15258, 0, 0>> /\ rng.in.pid = 42)
          => rng.srandom[1] = <<1000172258 % 65536, 1000172258 \div 65536>>

C11_Witness ==
    /\ pc = "wait"
    /\ rng.in.open_ok /\ rng.in.nread = 3
    /\ rng.in.usec = 999999 /\ rng.in.sec = <<5, 0, 1, 0>> /\ rng.in.pid = 42
    /\ rng.srandom = <<<<999872 % 65536, 999872 \div 65536>>>>

(***************************************************************************)
(* ni_dhcp_send_device_event, lines 130-151, byte counts                   *)
(***************************************************************************)
\* sizeof(event), line 134
EventSize == 65536
\* how far past the array strlen may run before it meets a zero byte
MaxOverrun == 2

\* strlen(dev->ifname)
NameLen(n) == IF n = "eth0" THEN 4 ELSE 5
\* the bytes of "POST /system/event/%s\n\n", line 145
PrefixLen(n) == 19 + NameLen(n) + 2

\* what ni_dhcp_send_device_event may meet: the device, whether the codec
\* renders it, the length xml_node_print gives the document, and whether the
\* C library keeps the last byte of the buffer for the terminating zero
WireInputs ==
    [ifname   : Names,
     codec_ok : BOOLEAN,
     doclen   : {0, 300, EventSize - 32, EventSize - 27, EventSize - 26,
                 EventSize - 25, EventSize - 24, EventSize, EventSize + 4000},
     reserve  : BOOLEAN]

\* fclose, line 147: the stream is flushed into event[]. Yields the bytes
\* that arrive there and the place of the terminating zero, -1 if none fits.
Flush(total, reserve) ==
    LET room == IF reserve THEN EventSize - 1 ELSE EventSize
        n    == IF total <= room THEN total ELSE room
    IN  [pos |-> n, nul |-> IF n < EventSize THEN n ELSE -1]

\* strlen(event), line 149: the place of the zero byte; without one in the
\* array the scan runs into the stack behind it or into an unmapped page
Strlen(buf) ==
    IF buf.nul >= 0 THEN {buf.nul}
    ELSE {-1} \cup (EventSize .. (EventSize + MaxOverrun))

WireInit ==
    /\ pc = "drain"
    /\ ni_dhcp_stop = 0
    /\ ni_dhcp_active = <<>>
    /\ dev = 0
    /\ last = NoReq
    /\ calls = <<>>
    /\ sent = NoEvent
    /\ atExit = <<>>
    /\ seeded = 1
    /\ exitStatus = -1
    /\ rng = NoRng
    /\ \E in \in WireInputs :
          wire = [at |-> "render", in |-> in, stream |-> 0,
                  buf |-> [pos |-> 0, nul |-> -1], written |-> -1, crashed |-> FALSE]

WireFrame ==
    UNCHANGED <<pc, ni_dhcp_stop, ni_dhcp_active, dev, last, calls, sent, atExit,
                seeded, exitStatus, rng>>

\* lines 138-141: no document, nothing is written
WrRenderFails ==
    /\ wire.at = "render" /\ ~wire.in.codec_ok
    /\ wire' = [wire EXCEPT !.at = "done"]
    /\ WireFrame

\* lines 138 and 143: the document is there; fmemopen(.., "w") puts a zero
\* byte at event[0]
WrOpen ==
    /\ wire.at = "render" /\ wire.in.codec_ok
    /\ wire' = [wire EXCEPT !.at = "fprintf", !.buf = [pos |-> 0, nul |-> 0]]
    /\ WireFrame

\* line 145
WrPrefix ==
    /\ wire.at = "fprintf"
    /\ wire' = [wire EXCEPT !.at = "print", !.stream = PrefixLen(wire.in.ifname)]
    /\ WireFrame

\* line 146
WrDocument ==
    /\ wire.at = "print"
    /\ wire' = [wire EXCEPT !.at = "fclose", !.stream = wire.stream + wire.in.doclen]
    /\ WireFrame

\* line 147
WrClose ==
    /\ wire.at = "fclose"
    /\ wire' = [wire EXCEPT !.at = "write", !.buf = Flush(wire.stream, wire.in.reserve)]
    /\ WireFrame

\* line 149: write(sock->__fd, event, strlen(event))
WrWrite ==
    /\ wire.at = "write"
    /\ \E n \in Strlen(wire.buf) :
          wire' = IF n < 0
                  THEN [wire EXCEPT !.at = "done", !.crashed = TRUE]
                  ELSE [wire EXCEPT !.at = "done", !.written = n]
    /\ WireFrame

WireNext ==
    \/ WrRenderFails
    \/ WrOpen
    \/ WrPrefix
    \/ WrDocument
    \/ WrClose
    \/ WrWrite

WireSpec == WireInit /\ [][WireNext]_vars

\* C12: the message written for a device is the line POST
\* /system/event/<ifname>, a blank line and the whole document, and never more
\* than 65536 bytes, whatever the length of the document.
C12_EventFits ==
    (wire.at = "done" /\ wire.in.codec_ok) =>
        /\ ~wire.crashed
        /\ wire.written <= 65536
        /\ wire.written = 19 + NameLen(wire.in.ifname) + 2 + wire.in.doclen

(***************************************************************************)
(* The event loop of lines 64-87 with the blocking wait told apart from    *)
(* the rest of the pass                                                    *)
(***************************************************************************)
\* devices the registry may hold in this specification
LiveDevices == 1

\* the requests a client sends in this specification
LiveRequests ==
    {in \in Requests : in.parse_ok /\ in.open_ok /\ in.codec_ok
                       /\ in.name \in {"eth0", NoName}
                       /\ in.method \in {"GET", "PUT", "DELETE"}}

\* catch_fatal_signals, lines 38-42. A signal that arrives while the process
\* is blocked in the wait of line 74 also ends that wait; one that arrives
\* anywhere else only records itself.
LiveSignal(sig) ==
    /\ pc \in Running \cup {"interrupted"}
    /\ ni_dhcp_stop # sig
    /\ ni_dhcp_stop' = sig
    /\ pc' = IF pc = "wait" THEN "interrupted" ELSE pc
    /\ UNCHANGED <<ni_dhcp_active, dev, last, calls, sent, atExit, seeded, exitStatus>>
    /\ UNCHANGED <<rng, wire>>

\* line 74: the interrupted wait returns 0 without having handled anything
WaitInterrupted ==
    /\ pc = "interrupted"
    /\ pc' = "check"
    /\ last' = NoReq
    /\ calls' = <<>>
    /\ UNCHANGED <<ni_dhcp_stop, ni_dhcp_active, dev, sent, atExit, seeded, exitStatus>>
    /\ UNCHANGED <<rng, wire>>

LiveRequest(in) ==
    /\ WaitRequest(in)
    /\ Len(ni_dhcp_active') <= LiveDevices

\* line 68 and 74: the wait ends by itself when a timer is due, and timers
\* belong to the devices the state machine is driving
TimerDue ==
    /\ Managed(ni_dhcp_active) # {}
    /\ WaitTimeout

\* the steps the process takes by itself, whatever its peers do
Progress ==
    \/ WaitInterrupted
    \/ CheckStop
    \/ SweepNone
    \/ \E d \in 1..MaxDevices, st \in States, l \in Leases \cup {NoLease}, f \in BOOLEAN :
          SweepTimer(d, st, l, f)
    \/ \E codec_ok \in BOOLEAN : DrainOne(codec_ok)
    \/ DrainDone
    \/ \E ok \in BOOLEAN : ShutdownRelease(ok)
    \/ ShutdownStop
    \/ Exit

LiveNext ==
    \/ Startup
    \/ \E sig \in {SIGINT, SIGTERM} : LiveSignal(sig)
    \/ WaitInterrupted
    \/ \E in \in LiveRequests : LiveRequest(in)
    \/ WaitPullFail
    \/ \E d \in 1..MaxDevices, st \in States, l \in Leases \cup {NoLease}, f \in BOOLEAN :
          WaitPacket(d, st, l, f)
    \/ WaitTimeout
    \/ WaitFail
    \/ CheckStop
    \/ SweepNone
    \/ \E d \in 1..MaxDevices, st \in States, l \in Leases \cup {NoLease}, f \in BOOLEAN :
          SweepTimer(d, st, l, f)
    \/ \E codec_ok \in BOOLEAN : DrainOne(codec_ok)
    \/ DrainDone
    \/ \E ok \in BOOLEAN : ShutdownRelease(ok)
    \/ ShutdownStop
    \/ Exit

LiveSpec ==
    /\ Init
    /\ [][LiveNext]_vars
    /\ WF_vars(Progress)
    /\ WF_vars(TimerDue)

\* C13: once a termination signal is recorded anywhere in the event loop, the
\* loop exits and the shutdown sequence runs, unless the wait fails (or the
\* process dies inside a handler).
C13_SignalHonoured ==
    (ni_dhcp_stop # 0 /\ pc \in Running \cup {"interrupted"})
        ~> (pc \in {"shutdown", "shutdown_stop", "exited", "fatal", "crashed"})

(***************************************************************************)
(* The notify flag and the drain of lines 85-86                            *)
(***************************************************************************)
\* the devices flagged as changed
Flagged(active) == {i \in 1..Len(active) : active[i].notify}

\* the event of device d with its rendered status
EventOf(d) == [ifname |-> d.ifname,
               body |-> [doc |-> "lease", lease |-> RenderedStatus(d)]]

C14_Drained == (pc = "wait") => Flagged(ni_dhcp_active) = {}

C14_ClearedByDrain ==
    \A d \in Flagged(ni_dhcp_active) :
        \/ d \in Flagged(ni_dhcp_active')
        \/ /\ pc = "drain" /\ pc' = "drain"
           /\ d = ni_dhcp_device_get_changed(ni_dhcp_active)
           /\ sent' \in {EventOf(ni_dhcp_active[d]), NoEvent}

C14_AlwaysSent ==
    \A d \in Flagged(ni_dhcp_active) :
        \/ d \in Flagged(ni_dhcp_active')
        \/ /\ pc = "drain" /\ pc' = "drain"
           /\ d = ni_dhcp_device_get_changed(ni_dhcp_active)
           /\ sent' = EventOf(ni_dhcp_active[d])

\* C14 as stated: a flag, once set, stays until a drain step clears it, that
\* step sends the event of the device, and when the pass returns to the wait
\* no device is flagged.
C14_NotifySent == [](C14_Drained) /\ [][C14_AlwaysSent]_vars

\* C14: a flag, once set, stays until a drain step clears it; that step sends
\* the event of the device, or nothing when its status cannot be rendered;
\* when the pass returns to the wait no device is flagged.
C14_NotifyDrained == [](C14_Drained) /\ [][C14_ClearedByDrain]_vars

C14_Witness ==
    /\ pc = "drain"
    /\ Len(ni_dhcp_active) = 2
    /\ sent = EventOf(ni_dhcp_active[2])
    /\ Flagged(ni_dhcp_active) = {}

(***************************************************************************)
(* Where the loop of lines 64-87 looks at ni_dhcp_stop                     *)
(***************************************************************************)
C15_OnlyAtCheck ==
    (pc' = "shutdown" /\ pc \notin {"shutdown", "shutdown_stop"}) =>
        (pc = "check" /\ ni_dhcp_stop # 0)

C15_SignalOnlyRecords ==
    (ni_dhcp_stop' # ni_dhcp_stop) =>
        UNCHANGED <<pc, ni_dhcp_active, dev, last, calls, sent, atExit, seeded, exitStatus>>

C15_Completes ==
    /\ RequestStep => pc' \in {"check", "crashed"}
    /\ (pc = "sweep") => pc' \in {"sweep", "drain"}
    /\ (pc = "drain") => pc' \in {"drain", "wait"}

PutRefused(in) ==
    \/ in.name = NoName
    \/ ~in.open_ok
    \/ ~in.body.ok
    \/ ni_interface_by_name(in.body.ifs, in.name) = {}

\* C17: a PUT interface/<name> that fails (no name, the store cannot be
\* opened, the body cannot be parsed, no description of <name>) leaves the
\* device list and every field of every device as before the request, and
\* attaches an error message; these four causes always fail.
C17_PutFailureFrame ==
    [][(RequestStep /\ last'.handler = "dhcp_interface_put") =>
        /\ PutRefused(last'.in) => (last'.rv < 0 /\ ~last'.crashed)
        /\ (last'.rv < 0 /\ ~last'.crashed) =>
            /\ PutRefused(last'.in)
            /\ ni_dhcp_active' = ni_dhcp_active
            /\ last'.err # ""
            /\ calls' = <<>>
       ]_vars

C17_Witness ==
    /\ last.handled /\ last.handler = "dhcp_interface_put"
    /\ last.rv < 0 /\ ~last.crashed
    /\ last.err = "cannot find configuration for interface"
    /\ Len(ni_dhcp_active) = 2
    /\ ni_dhcp_active[1].lease # NoLease

\* C18: whenever dhcp_interface_put returns, the store it opened is closed
\* again (none was opened when the name is missing or the open failed), and
\* no store is open while the loop runs between requests.
C18_StoreReleased ==
    /\ (last.handled /\ last.handler = "dhcp_interface_put" /\ ~last.crashed) =>
          last.cnih = IF last.in.name # NoName /\ last.in.open_ok
                      THEN "closed" ELSE "none"
    /\ (pc \in Running \cup {"exited", "fatal"}) => last.cnih # "open"

C18_Witness ==
    /\ Handled("dhcp_interface_put")
    /\ last.in.open_ok /\ ~last.in.body.ok
    /\ last.rv < 0
    /\ last.cnih = "closed"

(***************************************************************************)
(* One device per interface name, lines 253-266                            *)
(***************************************************************************)
C19_Unique == \A n \in Names : Cardinality(DevicesNamed(n)) <= 1

C19_NewOnlyWhenAbsent ==
    \A k \in CallsOp("new") :
        /\ k > 1
        /\ calls[k - 1].op = "find"
        /\ calls[k - 1].name = calls[k].name
        /\ calls[k - 1].dev = 0

C19_OnlyPutCreates ==
    (Len(ni_dhcp_active') # Len(ni_dhcp_active)) =>
        /\ RequestStep /\ last'.handler = "dhcp_interface_put"
        /\ Len(ni_dhcp_active') = Len(ni_dhcp_active) + 1
        /\ DevicesNamed(last'.in.name) = {}

\* C19: the device list never holds two devices of one interface name; a
\* device is created only by a PUT, right after the lookup of its name found
\* none, and no other step adds or removes a device.
C19_OnePerName ==
    [](C19_Unique /\ C19_NewOnlyWhenAbsent) /\ [][C19_OnlyPutCreates]_vars

C19_Witness ==
    /\ PutParsed /\ PutIfp.up /\ last.in.name = "eth0"
    /\ Len(ni_dhcp_active) = 2
    /\ ni_dhcp_active[1].ifname = "wlan0" /\ ni_dhcp_active[2].ifname = "eth0"
    /\ calls[1].dev = 2
    /\ CallsOp("new") = {}

(***************************************************************************)
(* The ends of the process: exit(0) of line 102, ni_fatal of line 75, and  *)
(* the fault of line 279                                                   *)
(***************************************************************************)
\* the devices that hold a lease in an active state and had no release
\* requested by the operation that ended the process
Unreleased(active) ==
    {i \in 1..Len(active) : Eligible(active[i]) /\ CallsOf("release", i) = {}}

\* C20: when the wait fails the process ends at once, with no release and no
\* stop requested for any device; on every other way the process ends, each
\* device in an active state that holds a lease has had a release requested.
C20_FatalOnlySkip ==
    /\ (pc = "fatal") =>
          (exitStatus = 1 /\ CallsOp("release") = {} /\ CallsOp("stop") = {})
    /\ (pc = "exited") => Unreleased(atExit) = {}
    /\ (pc = "crashed") => Unreleased(ni_dhcp_active) = {}

====
